---- MODULE Spec2Model ----
(***************************************************************************)
(* passwordless-redisstore: a token store over Redis.                      *)
(*                                                                         *)
(* The model follows lib/redisstore.js.  Every public operation is a chain *)
(* of callbacks; a slot of `ops` holds one operation and its position in   *)
(* that chain.  One action is one callback: it applies the command whose   *)
(* reply it handles to the Redis state, runs the handler's code and sends  *)
(* the next command.  The clock moves between callbacks.                   *)
(***************************************************************************)
EXTENDS Integers, Sequences, FiniteSets, TLC

VARIABLES
    now,        \* Date.now() and the Redis server's clock, in ms
    data,       \* Redis hashes: key -> [token, origin, ttl] (fields are strings)
    expiry,     \* Redis key timeouts: key -> deadline in ms (only keys that have one)
    inst,       \* the RedisStore instances: _database, _tokenKey, _selected
    ops,        \* operations started by the caller, one per slot
    salts,      \* number of salts bcrypt has drawn so far
    wrote,      \* history: key -> the storeOrUpdate call whose hmset wrote it
    last,       \* history: (store, uid) -> what last happened to the record of the uid
    cleared,    \* history: store -> its last clear() succeeded and nothing was written since
    ctor        \* a constructor call: its arguments and its outcome

vars == <<now, data, expiry, inst, ops, salts, wrote, last, cleared, ctor>>

----------------------------------------------------------------------------
(* Bounds of the model *)

MaxTicks == 2       \* clock ticks in a behaviour
MaxHashes == 2      \* bcrypt.hash calls in a behaviour

(* Program constants *)

MsPerSecond == 1000     \* Math.ceil(msToLive / 1000)
BcryptRounds == 10      \* bcrypt.hash(token, 10, ...)
DefaultDatabase == 0    \* this._database = 0
DefaultPort == 6379     \* port = port || 6379
BcryptMinRounds == 12   \* var bcryptMinRounds = 12 (the variant with redisstore.rounds)

TickMs == MsPerSecond
Slots == DOMAIN ops
Stores == DOMAIN inst

----------------------------------------------------------------------------
(* JavaScript values.  A string is a sequence of characters. *)

Undefined == [t |-> "undefined", n |-> 0, s |-> <<>>]
Null == [t |-> "null", n |-> 0, s |-> <<>>]
NaN == [t |-> "NaN", n |-> 0, s |-> <<>>]
Infinity == [t |-> "Infinity", n |-> 0, s |-> <<>>]
True == [t |-> "boolean", n |-> 1, s |-> <<>>]
False == [t |-> "boolean", n |-> 0, s |-> <<>>]
Num(n) == [t |-> "number", n |-> n, s |-> <<>>]
Str(s) == [t |-> "string", n |-> 0, s |-> s]

Digits == <<"0", "1", "2", "3", "4", "5", "6", "7", "8", "9">>
IsDigit(c) == \E d \in 1 .. 10 : Digits[d] = c
DigitValue(c) == (CHOOSE d \in 1 .. 10 : Digits[d] = c) - 1

\* String(n) for an integer n >= 0: its decimal digits
RECURSIVE DecimalString(_)
DecimalString(n) ==
    IF n < 10 THEN <<Digits[n + 1]>>
    ELSE Append(DecimalString(n \div 10), Digits[(n % 10) + 1])

\* the value of a sequence of digits
RECURSIVE DigitsValue(_)
DigitsValue(s) ==
    IF s = <<>> THEN 0
    ELSE 10 * DigitsValue(SubSeq(s, 1, Len(s) - 1)) + DigitValue(s[Len(s)])

\* the longest prefix of s made of digits
RECURSIVE LeadingDigits(_)
LeadingDigits(s) ==
    IF s = <<>> \/ ~IsDigit(Head(s)) THEN <<>>
    ELSE <<Head(s)>> \o LeadingDigits(Tail(s))

\* Number(v): the numeric value of v (JsNumber)
JsNumber(v) ==
    CASE v.t = "number" -> v
      [] v.t = "NaN" -> NaN
      [] v.t = "Infinity" -> Infinity
      [] v.t = "undefined" -> NaN
      [] v.t = "null" -> Num(0)
      [] v.t = "boolean" -> Num(v.n)
      [] v.t = "string" ->
            LET neg == v.s # <<>> /\ Head(v.s) = "-"
                body == IF neg THEN Tail(v.s) ELSE v.s
            IN  IF v.s = <<>> THEN Num(0)
                ELSE IF body # <<>> /\ LeadingDigits(body) = body
                     THEN Num(IF neg THEN -DigitsValue(body) ELSE DigitsValue(body))
                ELSE IF body = <<"I", "n", "f", "i", "n", "i", "t", "y">> THEN Infinity
                ELSE NaN
      [] OTHER -> NaN

\* String(v)
JsString(v) ==
    CASE v.t = "string" -> v.s
      [] v.t = "number" ->
            IF v.n < 0 THEN <<"-">> \o DecimalString(-v.n) ELSE DecimalString(v.n)
      [] v.t = "NaN" -> <<"N", "a", "N">>
      [] v.t = "Infinity" -> <<"I", "n", "f", "i", "n", "i", "t", "y">>
      [] v.t = "undefined" -> <<"u", "n", "d", "e", "f", "i", "n", "e", "d">>
      [] v.t = "null" -> <<"n", "u", "l", "l">>
      [] v.t = "boolean" ->
            IF v.n = 1 THEN <<"t", "r", "u", "e">> ELSE <<"f", "a", "l", "s", "e">>
      [] OTHER -> <<"E", "r", "r", "o", "r">>

\* parseFloat(v): the number the string of v starts with, NaN if there is none
ParseFloat(v) ==
    LET s == JsString(v)
        neg == s # <<>> /\ Head(s) = "-"
        body == IF neg THEN Tail(s) ELSE s
        lead == LeadingDigits(body)
    IN  IF lead # <<>> THEN Num(IF neg THEN -DigitsValue(lead) ELSE DigitsValue(lead))
        ELSE IF body = JsString(Infinity) THEN Infinity
        ELSE NaN

IsNaN(v) == JsNumber(v).t = "NaN"
IsFinite(v) == JsNumber(v).t = "number"

\* a value in a condition: if(v), !v, v || w
Truthy(v) ==
    CASE v.t = "number" -> v.n # 0
      [] v.t = "string" -> v.s # <<>>
      [] v.t = "boolean" -> v.n = 1
      [] v.t = "Infinity" -> TRUE
      [] OTHER -> FALSE

Or(v, w) == IF Truthy(v) THEN v ELSE w

isNumber(n) == ~IsNaN(ParseFloat(n)) /\ IsFinite(n)

----------------------------------------------------------------------------
(* The constructor: function RedisStore(port, host, options) *)

DefaultTokenKey == <<"p", "w", "d", "l", "e", "s", "s", ":">>
DefaultHost == <<"1", "2", "7", ".", "0", ".", "0", ".", "1">>

\* options: the fields of options.redisstore and whether options.client is given
\* (absent fields, or no options at all, are Undefined)
NoOptions == [database |-> Undefined, tokenkey |-> Undefined, client |-> FALSE]

NotConstructed ==
    [threw |-> FALSE, _database |-> Undefined, _tokenKey |-> Undefined,
     _selected |-> FALSE, port |-> Undefined, host |-> Undefined,
     createdClient |-> FALSE, hasClient |-> FALSE]

RedisStore(port, host, options) ==
    LET p == Or(port, Num(DefaultPort))
        h == Or(host, Str(DefaultHost))
    IN  IF Truthy(options.database) /\ ~isNumber(options.database)
        THEN [NotConstructed EXCEPT !.threw = TRUE]
        ELSE [threw |-> FALSE,
              _database |-> IF Truthy(options.database) THEN options.database
                            ELSE Num(DefaultDatabase),
              _tokenKey |-> Or(options.tokenkey, Str(DefaultTokenKey)),
              _selected |-> FALSE,
              port |-> p, host |-> h,
              createdClient |-> ~options.client,
              hasClient |-> TRUE]

----------------------------------------------------------------------------
(* bcrypt.  A hash string carries its algorithm, cost and salt; its body   *)
(* stands for the digest of (token, salt), which only bcrypt.compare reads. *)

PlainText(token) == [alg |-> "none", rounds |-> 0, salt |-> 0, body |-> token]
NoHash == [alg |-> "nil", rounds |-> 0, salt |-> 0, body |-> <<>>]

\* a hash that returns its input
BcryptHashNone(token, rounds, salt) == PlainText(token)

BcryptHash(token, rounds, salt) ==
    [alg |-> "bcrypt", rounds |-> rounds, salt |-> salt, body |-> token]

BcryptCompare(token, hashed) == hashed.alg = "bcrypt" /\ hashed.body = token

----------------------------------------------------------------------------
(* Redis: hashes with optional timeouts, seen through one database *)

NoObj == [token |-> NoHash, origin |-> <<>>, ttl |-> <<>>]

\* glob matching of KEYS: * matches any run of characters, ? any one character
RECURSIVE stringmatch(_, _)
stringmatch(pattern, s) ==
    IF pattern = <<>> THEN s = <<>>
    ELSE IF Head(pattern) = "*"
         THEN stringmatch(Tail(pattern), s)
              \/ (s # <<>> /\ stringmatch(pattern, Tail(s)))
    ELSE IF s = <<>> THEN FALSE
    ELSE IF Head(pattern) = "?" THEN stringmatch(Tail(pattern), Tail(s))
    ELSE Head(pattern) = Head(s) /\ stringmatch(Tail(pattern), Tail(s))

Restrict(f, keep) == [k \in DOMAIN f \cap keep |-> f[k]]
Without(f, gone) == [k \in DOMAIN f \ gone |-> f[k]]
Put(f, key, v) == [k \in DOMAIN f \cup {key} |-> IF k = key THEN v ELSE f[k]]

\* an HMSET that sends the token field alone: the other fields of a hash that
\* exists stay as they are
hmsetTokenOnly(key, obj) ==
    Put(data, key, IF key \in DOMAIN data THEN [data[key] EXCEPT !.token = obj.token]
                   ELSE [NoObj EXCEPT !.token = obj.token])

\* HMSET key field value ...: the fields are set in one step
hmset(key, obj) == Put(data, key, obj)

\* HGETALL key: the hash, or null
hgetall(key) == IF key \in DOMAIN data THEN data[key] ELSE NoObj

\* KEYS pattern
keys(pattern) == {k \in DOMAIN data : stringmatch(pattern, k)}

\* keys whose timeout has passed at time t: Redis deletes them
Expired(t) == {k \in DOMAIN expiry : t > expiry[k]}

----------------------------------------------------------------------------
(* Arithmetic and comparison as the handlers use them *)

\* a + b: concatenation as soon as one side is a string
JsAdd(a, b) ==
    IF a.t = "string" \/ b.t = "string" THEN Str(JsString(a) \o JsString(b))
    ELSE IF JsNumber(a).t = "number" /\ JsNumber(b).t = "number"
         THEN Num(JsNumber(a).n + JsNumber(b).n)
    ELSE NaN

\* a > b on numbers; a comparison with NaN is false
JsGreater(a, b) ==
    /\ JsNumber(a).t = "number"
    /\ JsNumber(b).t = "number"
    /\ JsNumber(a).n > JsNumber(b).n

\* Math.ceil(msToLive / 1000)
CeilSeconds(msToLive) ==
    IF JsNumber(msToLive).t = "number"
    THEN Num(-((-JsNumber(msToLive).n) \div MsPerSecond))
    ELSE NaN

\* an Error object of the Redis client or of bcrypt
Err(what) == [t |-> "error", n |-> 0, s |-> <<what>>]

\* argument i of a callback invocation (undefined when not passed)
Arg(args, i) == IF i <= Len(args) THEN args[i] ELSE Undefined

----------------------------------------------------------------------------
(* Operations *)

\* history of a uid of a store: "written" once the hmset of a storeOrUpdate has
\* written its record, "stored" once every storeOrUpdate that wrote to the key
\* has called back without error (a call that wrote and then calls back with an
\* error ends the history of the key), "invalidated" after an invalidateUser that
\* called back without error, "none" when none of these is the last thing that
\* happened to it.  times counts the overlapping storeOrUpdate calls that wrote
\* the key (capped at 2), or the invalidateUser calls.
NoLast ==
    [state |-> "none", token |-> Undefined, originUrl |-> Undefined, expiresAt |-> 0,
     hash |-> NoHash, prevState |-> "none", prevToken |-> Undefined,
     prevHash |-> NoHash, times |-> 0]

LastOf(s, uid) == IF <<s, uid>> \in DOMAIN last THEN last[<<s, uid>>] ELSE NoLast

IdleOp ==
    [kind |-> "idle", pc |-> "idle", store |-> 0, token |-> Undefined,
     uid |-> Undefined, msToLive |-> Undefined, originUrl |-> Undefined,
     key |-> <<>>, obj |-> NoObj, at |-> 0, matches |-> {}, owners |-> {},
     pending |-> {}, failed |-> {}, cmds |-> <<>>, fault |-> "none", args |-> <<>>,
     called |-> 0, prev |-> NoLast]

\* a key that leaves the uid out
KeyOfPrefixOnly(s, uid) == JsString(inst[s]._tokenKey)

\* the key of a uid: self._tokenKey + uid
KeyOf(s, uid) == JsString(inst[s]._tokenKey) \o JsString(uid)

\* the pattern without its wildcard
PatternOfNoWildcard(s) == JsString(inst[s]._tokenKey)

\* the pattern of clear and length: self._tokenKey + '*'
PatternOf(s) == JsString(inst[s]._tokenKey) \o <<"*">>

\* the first call of each operation once the database is selected
FirstCall(kind) ==
    CASE kind = "authenticate" -> "hgetall"
      [] kind = "storeOrUpdate" -> "hash"
      [] kind = "invalidateUser" -> "del"
      [] kind = "clear" -> "keys"
      [] kind = "length" -> "keys"

\* callback(args...)
Callback(op, args) == [op EXCEPT !.args = args, !.called = @ + 1]
Finish(op, args) == [Callback(op, args) EXCEPT !.pc = "done", !.prev = NoLast]
Failed(op, what, args) == [Finish(op, args) EXCEPT !.fault = what]
Send(op, call) == [op EXCEPT !.pc = call, !.cmds = Append(@, call)]

\* a _select that sends SELECT every time
_selectAlways(op) == Send(op, "select")

\* a _select that never sends SELECT
_selectNever(op) == Send(op, FirstCall(op.kind))

\* self._select(callback) as called first by every operation: the callback runs
\* at once when the database was selected before, else SELECT is sent
_select(op) ==
    IF inst[op.store]._selected THEN Send(op, FirstCall(op.kind))
    ELSE Send(op, "select")

\* the parameter checks that throw
InvalidAuthenticate(token, uid, callback) ==
    ~Truthy(token) \/ ~Truthy(uid) \/ ~callback

\* the parameter test without isNumber
InvalidStoreOrUpdateNoNumberCheck(token, uid, msToLive, callback) ==
    ~Truthy(token) \/ ~Truthy(uid) \/ ~Truthy(msToLive) \/ ~callback

InvalidStoreOrUpdate(token, uid, msToLive, callback) ==
    ~Truthy(token) \/ ~Truthy(uid) \/ ~Truthy(msToLive) \/ ~callback
    \/ ~isNumber(msToLive)

InvalidInvalidateUser(uid, callback) == ~Truthy(uid) \/ ~callback

Thrown(kind, s) == [IdleOp EXCEPT !.kind = kind, !.pc = "threw", !.store = s]

----------------------------------------------------------------------------
(* The public operations: the parameter check and the call of _select *)

Free(i) == ops[i].pc = "idle"

\* history: the entries of the uids whose key is key
Named(key) == {h \in DOMAIN last : KeyOf(h[1], h[2]) = key}

\* history: the entries of a record that was written to key
Records(key) == {h \in Named(key) : last[h].state \in {"written", "stored"}}

\* another storeOrUpdate for key is between its call and its callback
Storing(i, key) ==
    \E j \in Slots \ {i} :
        /\ ops[j].kind = "storeOrUpdate"
        /\ ops[j].pc \in {"select", "hash", "hmset", "expire"}
        /\ ops[j].key = key

\* history: a write to the key of uid is about to happen
Touch(s, uid) ==
    /\ last' = Without(last, {<<s, uid>>} \cup Named(KeyOf(s, uid)))
    /\ cleared' = [t \in Stores |->
                      IF stringmatch(PatternOf(t), KeyOf(s, uid)) THEN -1
                      ELSE cleared[t]]

\* the error alone, as the other operations pass it
AuthenticateErrorOnly(err) == <<err>>

\* authenticate's callback on an error: callback(err, false, null)
AuthenticateError(err) == <<err, False, Null>>

\* the comparison turned round
IsExpiredReversed(t, obj) == JsGreater(Str(obj.ttl), Num(t))

\* authenticate: Date.now() > obj.ttl
IsExpired(t, obj) == JsGreater(Num(t), Str(obj.ttl))

authenticate(i, s, token, uid, callback) ==
    /\ Free(i)
    /\ ops' = [ops EXCEPT ![i] =
                  IF InvalidAuthenticate(token, uid, callback)
                  THEN Thrown("authenticate", s)
                  ELSE _select([IdleOp EXCEPT !.kind = "authenticate", !.store = s,
                                              !.token = token, !.uid = uid,
                                              !.key = KeyOf(s, uid),
                                              !.prev = LastOf(s, uid)])]
    /\ UNCHANGED <<now, data, expiry, inst, salts, wrote, last, cleared, ctor>>

storeOrUpdate(i, s, token, uid, msToLive, originUrl, callback) ==
    /\ Free(i)
    /\ salts < MaxHashes
    /\ IF InvalidStoreOrUpdate(token, uid, msToLive, callback)
       THEN /\ ops' = [ops EXCEPT ![i] = Thrown("storeOrUpdate", s)]
            /\ UNCHANGED <<last, cleared>>
       ELSE /\ ops' = [ops EXCEPT ![i] =
                          _select([IdleOp EXCEPT !.kind = "storeOrUpdate",
                                                 !.store = s, !.token = token,
                                                 !.uid = uid, !.msToLive = msToLive,
                                                 !.originUrl = originUrl,
                                                 !.key = KeyOf(s, uid),
                                                 !.prev = LastOf(s, uid)])]
            /\ Touch(s, uid)
    /\ UNCHANGED <<now, data, expiry, inst, salts, wrote, ctor>>

\* invalidateUser deleting the key without the prefix
invalidateUserBareUid(i, s, uid, callback) ==
    /\ Free(i)
    /\ IF InvalidInvalidateUser(uid, callback)
       THEN /\ ops' = [ops EXCEPT ![i] = Thrown("invalidateUser", s)]
            /\ UNCHANGED last
       ELSE /\ ops' = [ops EXCEPT ![i] =
                          _select([IdleOp EXCEPT !.kind = "invalidateUser",
                                                 !.store = s, !.uid = uid,
                                                 !.key = JsString(uid),
                                                 !.prev = LastOf(s, uid)])]
            /\ last' = Without(last, {<<s, uid>>} \cup Named(KeyOf(s, uid)))
    /\ UNCHANGED <<now, data, expiry, inst, salts, wrote, cleared, ctor>>

invalidateUser(i, s, uid, callback) ==
    /\ Free(i)
    /\ IF InvalidInvalidateUser(uid, callback)
       THEN /\ ops' = [ops EXCEPT ![i] = Thrown("invalidateUser", s)]
            /\ UNCHANGED last
       ELSE /\ ops' = [ops EXCEPT ![i] =
                          _select([IdleOp EXCEPT !.kind = "invalidateUser",
                                                 !.store = s, !.uid = uid,
                                                 !.key = KeyOf(s, uid),
                                                 !.prev = LastOf(s, uid)])]
            /\ last' = Without(last, {<<s, uid>>} \cup Named(KeyOf(s, uid)))
    /\ UNCHANGED <<now, data, expiry, inst, salts, wrote, cleared, ctor>>

clear(i, s, callback) ==
    /\ Free(i)
    /\ IF ~callback
       THEN /\ ops' = [ops EXCEPT ![i] = Thrown("clear", s)]
            /\ UNCHANGED <<last, cleared>>
       ELSE /\ ops' = [ops EXCEPT ![i] =
                          _select([IdleOp EXCEPT !.kind = "clear", !.store = s])]
            /\ last' = Without(last, {h \in DOMAIN last :
                                        /\ stringmatch(PatternOf(s), KeyOf(h[1], h[2]))
                                        /\ last[h].state \in {"written", "stored"}})
            /\ cleared' = [cleared EXCEPT ![s] = -1]
    /\ UNCHANGED <<now, data, expiry, inst, salts, wrote, ctor>>

length(i, s, callback) ==
    /\ Free(i)
    /\ ops' = [ops EXCEPT ![i] =
                  IF ~callback THEN Thrown("length", s)
                  ELSE _select([IdleOp EXCEPT !.kind = "length", !.store = s])]
    /\ UNCHANGED <<now, data, expiry, inst, salts, wrote, last, cleared, ctor>>

----------------------------------------------------------------------------
(* The callbacks.  ok says whether the call succeeded; a call that fails    *)
(* has changed nothing in Redis.                                           *)

\* _select: function(err, res) of self._client.select, then the operation's
\* function(err) (each operation passes err, false, null on)
SelectReply(i, ok) ==
    LET op == ops[i] IN
    /\ op.pc = "select"
    /\ IF ok
       THEN /\ inst' = [inst EXCEPT ![op.store]._selected = TRUE]
            /\ ops' = [ops EXCEPT ![i] = Send(op, FirstCall(op.kind))]
       ELSE /\ ops' = [ops EXCEPT ![i] =
                          Failed(op, "select",
                                 IF op.kind = "authenticate"
                                 THEN AuthenticateError(Err("select"))
                                 ELSE <<Err("select"), False, Null>>)]
            /\ UNCHANGED inst
    /\ UNCHANGED <<now, data, expiry, salts, wrote, last, cleared, ctor>>

\* authenticate: function(err, obj) of hgetall
HgetallReply(i, ok) ==
    LET op == ops[i]
        obj == hgetall(op.key)
        read == [op EXCEPT !.obj = obj, !.at = now]
    IN
    /\ op.pc = "hgetall"
    /\ ops' = [ops EXCEPT ![i] =
                  IF ~ok THEN Failed(op, "hgetall", AuthenticateError(Err("hgetall")))
                  ELSE IF obj = NoObj THEN Finish(read, <<Null, False, Null>>)
                  ELSE IF IsExpired(now, obj) THEN Finish(read, <<Null, False, Null>>)
                  ELSE Send(read, "compare")]
    /\ UNCHANGED <<now, data, expiry, inst, salts, wrote, last, cleared, ctor>>

\* authenticate: function(err, res) of bcrypt.compare
CompareReply(i, ok) ==
    LET op == ops[i] IN
    /\ op.pc = "compare"
    /\ ops' = [ops EXCEPT ![i] =
                  IF ~ok THEN Failed(op, "compare", AuthenticateError(Err("compare")))
                  ELSE IF BcryptCompare(JsString(op.token), op.obj.token)
                       THEN Finish(op, <<Null, True, Str(op.obj.origin)>>)
                  ELSE Finish(op, <<Null, False, Null>>)]
    /\ UNCHANGED <<now, data, expiry, inst, salts, wrote, last, cleared, ctor>>

\* the record storeOrUpdate passes to hmset
TokenRecord(hashedToken, originUrl, msToLive, t) ==
    [token |-> hashedToken,
     origin |-> JsString(Or(originUrl, Str(<<>>))),
     ttl |-> JsString(JsAdd(Num(t), msToLive))]

\* storeOrUpdate: function(err, hashedToken) of bcrypt.hash
HashReply(i, ok) ==
    LET op == ops[i]
        hashedToken == BcryptHash(JsString(op.token), BcryptRounds, salts + 1)
        rec == TokenRecord(hashedToken, op.originUrl, op.msToLive, now)
    IN
    /\ op.pc = "hash"
    /\ IF ok
       THEN /\ salts' = salts + 1
            /\ ops' = [ops EXCEPT ![i] =
                          Send([op EXCEPT !.obj = rec, !.at = now], "hmset")]
       ELSE /\ ops' = [ops EXCEPT ![i] = Failed(op, "hash", <<Err("hash")>>)]
            /\ UNCHANGED salts
    /\ UNCHANGED <<now, data, expiry, inst, wrote, last, cleared, ctor>>

\* storeOrUpdate: function(err, res) of hmset.  HMSET sets the fields of the
\* hash and leaves a timeout the key already has.
HmsetReply(i, ok) ==
    LET op == ops[i] IN
    /\ op.pc = "hmset"
    /\ IF ok
       THEN /\ data' = hmset(op.key, op.obj)
            /\ wrote' = Put(wrote, op.key,
                            [store |-> op.store, uid |-> op.uid,
                             token |-> op.token, originUrl |-> op.originUrl,
                             msToLive |-> op.msToLive, at |-> op.at,
                             salt |-> op.obj.token.salt])
            /\ ops' = [ops EXCEPT ![i] =
                          Send([op EXCEPT !.msToLive = CeilSeconds(op.msToLive)],
                               "expire")]
            /\ last' = Put(Without(last, Named(op.key)), <<op.store, op.uid>>,
                           [state |-> "written", token |-> op.token,
                            originUrl |-> op.originUrl,
                            expiresAt |-> JsNumber(Str(op.obj.ttl)).n,
                            hash |-> op.obj.token,
                            prevState |-> op.prev.state,
                            prevToken |-> op.prev.token,
                            prevHash |-> op.prev.hash,
                            times |-> IF Records(op.key) = {} THEN 1 ELSE 2])
       ELSE /\ ops' = [ops EXCEPT ![i] = Failed(op, "hmset", <<Err("hmset")>>)]
            /\ UNCHANGED <<data, wrote, last>>
    /\ UNCHANGED <<now, expiry, inst, salts, cleared, ctor>>

\* storeOrUpdate: function(err, res) of expire.  EXPIRE of a missing key does
\* nothing and is no error; a timeout that is not positive deletes the key.
ExpireReply(i, ok) ==
    LET op == ops[i]
        secs == op.msToLive.n
        there == op.key \in DOMAIN data
    IN
    /\ op.pc = "expire"
    /\ IF ok
       THEN /\ data' = IF there /\ secs <= 0 THEN Without(data, {op.key}) ELSE data
            /\ wrote' = Restrict(wrote, DOMAIN data')
            /\ expiry' = IF ~there THEN expiry
                         ELSE IF secs <= 0 THEN Without(expiry, {op.key})
                         ELSE Put(expiry, op.key, now + secs * MsPerSecond)
            /\ ops' = [ops EXCEPT ![i] = Finish(op, <<>>)]
            /\ last' = [h \in DOMAIN last |->
                          IF h \in Records(op.key) /\ ~Storing(i, op.key)
                          THEN [last[h] EXCEPT !.state = "stored"]
                          ELSE last[h]]
       ELSE /\ ops' = [ops EXCEPT ![i] = Failed(op, "expire", <<Err("expire")>>)]
            /\ last' = Without(last, Records(op.key))
            /\ UNCHANGED <<data, wrote, expiry>>
    /\ UNCHANGED <<now, inst, salts, cleared, ctor>>

\* invalidateUser: function(err) of del
DelReply(i, ok) ==
    LET op == ops[i] IN
    /\ op.pc = "del"
    /\ IF ok
       THEN /\ data' = Without(data, {op.key})
            /\ wrote' = Without(wrote, {op.key})
            /\ expiry' = Without(expiry, {op.key})
            /\ ops' = [ops EXCEPT ![i] =
                          Finish([op EXCEPT !.matches = {op.key} \cap DOMAIN data],
                                 <<>>)]
            /\ last' = Put(Without(last, Named(op.key)), <<op.store, op.uid>>,
                           IF op.prev.state = "invalidated"
                           THEN [op.prev EXCEPT !.times = 2]
                           ELSE [NoLast EXCEPT !.state = "invalidated",
                                               !.prevState = op.prev.state,
                                               !.prevToken = op.prev.token,
                                               !.times = 1])
       ELSE /\ ops' = [ops EXCEPT ![i] = Failed(op, "del", <<Err("del")>>)]
            /\ UNCHANGED <<data, wrote, expiry, last>>
    /\ UNCHANGED <<now, inst, salts, cleared, ctor>>

\* the commands async.each sends at once, one DEL per match
RECURSIVE Repeat(_, _)
Repeat(call, n) == IF n = 0 THEN <<>> ELSE <<call>> \o Repeat(call, n - 1)

\* clear and length: function(err, matches) of keys
KeysReply(i, ok) ==
    LET op == ops[i]
        matches == keys(PatternOf(op.store))
        seen == [op EXCEPT !.matches = matches,
                           !.owners = IF op.kind = "length"
                                      THEN {wrote[k].store : k \in matches}
                                      ELSE {}]
    IN
    /\ op.pc = "keys"
    /\ ops' = [ops EXCEPT ![i] =
                  IF ~ok THEN Failed(op, "keys", <<Err("keys")>>)
                  ELSE IF op.kind = "length"
                       THEN Finish(seen, <<Null, Num(Cardinality(matches))>>)
                  ELSE IF Cardinality(matches) > 0
                       THEN [seen EXCEPT !.pc = "dels", !.pending = matches,
                                         !.cmds = @ \o Repeat("del", Cardinality(matches))]
                  ELSE Finish(seen, <<>>)]
    /\ cleared' = IF ok /\ op.kind = "clear" /\ matches = {}
                  THEN [cleared EXCEPT ![op.store] = 0]
                  ELSE cleared
    /\ UNCHANGED <<now, data, expiry, inst, salts, wrote, last, ctor>>

\* a done(err) that drops the error of a del: the callback of clear is called
\* without error once every del has been answered
DelEachReplyIgnoringErrors(i, key, ok) ==
    LET op == ops[i]
        rest == op.pending \ {key}
        told == IF rest = {} /\ op.called = 0 THEN Callback(op, <<>>) ELSE op
    IN
    /\ op.pc = "dels"
    /\ key \in op.pending
    /\ ops' = [ops EXCEPT ![i] =
                  [told EXCEPT !.pending = rest,
                               !.failed = IF ok THEN @ ELSE @ \cup {key},
                               !.pc = IF rest = {} THEN "done" ELSE "dels",
                               !.owners = IF ok /\ key \in DOMAIN wrote
                                          THEN @ \cup {wrote[key].store}
                                          ELSE @]]
    /\ IF ok
       THEN /\ data' = Without(data, {key})
            /\ wrote' = Without(wrote, {key})
            /\ expiry' = Without(expiry, {key})
       ELSE UNCHANGED <<data, wrote, expiry>>
    /\ cleared' = IF ok /\ rest = {} /\ op.called = 0
                  THEN [cleared EXCEPT ![op.store] = Cardinality(op.matches)]
                  ELSE cleared
    /\ last' = IF ok THEN Without(last, Records(key)) ELSE last
    /\ UNCHANGED <<now, inst, salts, ctor>>

\* a done(err) that passes every error of a del on: the callback of clear is
\* called once for each del that failed
DelEachReplyEveryError(i, key, ok) ==
    LET op == ops[i]
        rest == op.pending \ {key}
        told == IF ok
                THEN IF rest = {} /\ op.called = 0 THEN Callback(op, <<>>) ELSE op
                ELSE [Callback(op, <<Err("del")>>) EXCEPT !.fault = "del"]
    IN
    /\ op.pc = "dels"
    /\ key \in op.pending
    /\ ops' = [ops EXCEPT ![i] =
                  [told EXCEPT !.pending = rest,
                               !.failed = IF ok THEN @ ELSE @ \cup {key},
                               !.pc = IF rest = {} THEN "done" ELSE "dels",
                               !.owners = IF ok /\ key \in DOMAIN wrote
                                          THEN @ \cup {wrote[key].store}
                                          ELSE @]]
    /\ IF ok
       THEN /\ data' = Without(data, {key})
            /\ wrote' = Without(wrote, {key})
            /\ expiry' = Without(expiry, {key})
       ELSE UNCHANGED <<data, wrote, expiry>>
    /\ cleared' = IF ok /\ rest = {} /\ op.called = 0
                  THEN [cleared EXCEPT ![op.store] = Cardinality(op.matches)]
                  ELSE cleared
    /\ last' = IF ok THEN Without(last, Records(key)) ELSE last
    /\ UNCHANGED <<now, inst, salts, ctor>>

\* clear: the callback async.each gives each del, function done(err): the first
\* error goes to the callback of clear, which is then replaced by a no-op; the
\* callback is called without error once every del has succeeded
DelEachReply(i, key, ok) ==
    LET op == ops[i]
        rest == op.pending \ {key}
        told == IF ok
                THEN IF rest = {} /\ op.called = 0 THEN Callback(op, <<>>) ELSE op
                ELSE IF op.called = 0
                     THEN [Callback(op, <<Err("del")>>) EXCEPT !.fault = "del"]
                ELSE op
    IN
    /\ op.pc = "dels"
    /\ key \in op.pending
    /\ ops' = [ops EXCEPT ![i] =
                  [told EXCEPT !.pending = rest,
                               !.failed = IF ok THEN @ ELSE @ \cup {key},
                               !.pc = IF rest = {} THEN "done" ELSE "dels",
                               !.owners = IF ok /\ key \in DOMAIN wrote
                                          THEN @ \cup {wrote[key].store}
                                          ELSE @]]
    /\ IF ok
       THEN /\ data' = Without(data, {key})
            /\ wrote' = Without(wrote, {key})
            /\ expiry' = Without(expiry, {key})
       ELSE UNCHANGED <<data, wrote, expiry>>
    /\ cleared' = IF ok /\ rest = {} /\ op.called = 0
                  THEN [cleared EXCEPT ![op.store] = Cardinality(op.matches)]
                  ELSE cleared
    /\ last' = IF ok THEN Without(last, Records(key)) ELSE last
    /\ UNCHANGED <<now, inst, salts, ctor>>

\* time passes; Redis deletes the keys whose timeout has passed
Tick ==
    /\ now < MaxTicks * TickMs
    /\ \A i \in Slots : ops[i].pc \notin {"done", "threw"}
    /\ now' = now + TickMs
    /\ data' = Without(data, Expired(now'))
    /\ wrote' = Without(wrote, Expired(now'))
    /\ expiry' = Without(expiry, Expired(now'))
    /\ last' = Without(last, {h \in DOMAIN last :
                                /\ last[h].state \in {"written", "stored"}
                                /\ now' > last[h].expiresAt})
    /\ UNCHANGED <<inst, ops, salts, cleared, ctor>>

\* the caller's callback (or its catch of the exception) returns
Return(i) ==
    /\ ops[i].pc \in {"done", "threw"}
    /\ ops' = [ops EXCEPT ![i] = IdleOp]
    /\ UNCHANGED <<now, data, expiry, inst, salts, wrote, last, cleared, ctor>>

\* new RedisStore(port, host, options)
New ==
    /\ ctor.phase = "call"
    /\ ctor' = [ctor EXCEPT !.phase = "returned",
                            !.out = RedisStore(ctor.port, ctor.host, ctor.options)]
    /\ UNCHANGED <<now, data, expiry, inst, ops, salts, wrote, last, cleared>>

----------------------------------------------------------------------------
(* The variant of the store with a configurable bcrypt cost (redisstore.rounds, *)
(* at least bcryptMinRounds).  Its constructor and the start of its            *)
(* storeOrUpdate differ from the above; the rest is the same code.             *)

\* the constructor: this._options keeps the caller's options, from which
\* `delete this._options.redisstore` removes the redisstore entry
RedisStoreMinRounds(port, host, options) ==
    IF Truthy(options.database) /\ ~isNumber(options.database)
    THEN [threw |-> TRUE, _database |-> Undefined, _tokenKey |-> Undefined,
          _selected |-> FALSE, port |-> port, host |-> host,
          createdClient |-> FALSE, hasClient |-> FALSE,
          _options |-> [redisstore |-> options]]
    ELSE [threw |-> FALSE,
          _database |-> IF Truthy(options.database) THEN options.database
                        ELSE Num(DefaultDatabase),
          _tokenKey |-> Or(options.tokenkey, Str(DefaultTokenKey)),
          _selected |-> FALSE,
          port |-> port, host |-> host,
          createdClient |-> TRUE, hasClient |-> TRUE,
          _options |-> [redisstore |-> Undefined]]

\* typeof v == 'number'
IsNumberType(v) == v.t \in {"number", "NaN", "Infinity"}

\* storeOrUpdate, the callback of _select after `if(err)`: the cost is read from
\* self._options.redisstore.rounds, which throws a TypeError when
\* self._options.redisstore is undefined; a cost that is no number or lies under
\* the minimum throws an Error; else bcrypt.hash is called with it
UseRounds(op) ==
    LET redisstore == inst[op.store]._options.redisstore
        rounds == Or(redisstore.rounds, Num(BcryptMinRounds))
    IN  IF redisstore = Undefined
        THEN [op EXCEPT !.pc = "threw", !.fault = "TypeError"]
        ELSE IF ~IsNumberType(rounds) \/ JsGreater(Num(BcryptMinRounds), rounds)
        THEN [op EXCEPT !.pc = "threw", !.fault = "rounds"]
        ELSE Send([f \in DOMAIN op \cup {"rounds"} |->
                      IF f = "rounds" THEN rounds ELSE op[f]], "hash")

\* storeOrUpdate up to the call of _select, whose callback runs at once when the
\* database was selected before
storeOrUpdateMinRounds(i, s, token, uid, msToLive, originUrl, callback) ==
    LET op == [IdleOp EXCEPT !.kind = "storeOrUpdate", !.store = s, !.token = token,
                             !.uid = uid, !.msToLive = msToLive,
                             !.originUrl = originUrl, !.key = KeyOf(s, uid)]
    IN
    /\ Free(i)
    /\ ops' = [ops EXCEPT ![i] =
                  IF InvalidStoreOrUpdate(token, uid, msToLive, callback)
                  THEN Thrown("storeOrUpdate", s)
                  ELSE IF inst[s]._selected THEN UseRounds(op)
                  ELSE Send(op, "select")]
    /\ UNCHANGED <<now, data, expiry, inst, salts, wrote, last, cleared, ctor>>

\* storeOrUpdate: function(err, res) of select and the function(err) given to
\* _select
SelectReplyMinRounds(i, ok) ==
    LET op == ops[i] IN
    /\ op.pc = "select"
    /\ IF ok
       THEN /\ inst' = [inst EXCEPT ![op.store]._selected = TRUE]
            /\ ops' = [ops EXCEPT ![i] = UseRounds(op)]
       ELSE /\ ops' = [ops EXCEPT ![i] =
                          Failed(op, "select", <<Err("select"), False, Null>>)]
            /\ UNCHANGED inst
    /\ UNCHANGED <<now, data, expiry, salts, wrote, last, cleared, ctor>>

----------------------------------------------------------------------------
(* Inputs *)

Tokens == {Str(<<"A">>), Str(<<"B">>)}
Uids == {Str(<<"u">>), Str(<<"x", "u">>)}
Lifetimes == {Num(500), Num(1500)}
OriginUrls == {Null, Str(<<"/", "o">>)}

\* the token keys of the second store: the default, an extension of it, another
TokenKeys == {Undefined, Str(DefaultTokenKey \o <<"x">>), Str(<<"t", ":">>)}

Databases ==
    {Undefined, Null, NaN, False, True, Infinity, Num(0), Num(15), Num(-1),
     Str(<<>>), Str(<<"1", "5">>), Str(<<"t", "e", "s", "t">>),
     Str(<<"1", "5", "x">>), Str(<<"x", "1", "5">>)}

Ports == {Undefined, Num(6380)}

\* arguments a caller may pass where a token, a uid or a msToLive is expected
ArgTokens == {Str(<<"A">>), Str(<<>>), Undefined}
ArgUids == {Str(<<"u">>), Null}
ArgLifetimes ==
    {Num(500), Num(0), Undefined, NaN, True, Str(<<"5", "0", "0">>),
     Str(<<"1", "5", "x">>)}

\* the redisstore.rounds option: absent, under the minimum, the minimum, above it
RoundsOptions == {Undefined, Num(4), Num(BcryptMinRounds), Num(14)}

EmptyMap == [k \in {} |-> NoObj]

NoCall ==
    [phase |-> "none", port |-> Undefined, host |-> Undefined,
     options |-> NoOptions, out |-> NotConstructed]

----------------------------------------------------------------------------
(* Specifications *)

\* the state the operations run from: the stores share one Redis database in
\* which nothing is stored, and the caller runs one operation at a time
Start(stores) ==
    /\ now = 0
    /\ data = EmptyMap
    /\ expiry = EmptyMap
    /\ wrote = EmptyMap
    /\ last = EmptyMap
    /\ salts = 0
    /\ cleared = [s \in stores |-> -1]
    /\ ops = [i \in {1} |-> IdleOp]
    /\ ctor = NoCall

\* one store, constructed with the default options
Init ==
    /\ Start({1})
    /\ inst = [s \in {1} |-> RedisStore(Undefined, Undefined, NoOptions)]

Next ==
    \/ \E i \in Slots, s \in Stores, token \in Tokens, uid \in Uids :
          authenticate(i, s, token, uid, TRUE)
    \/ \E i \in Slots, s \in Stores, token \in Tokens, uid \in Uids,
          msToLive \in Lifetimes, originUrl \in OriginUrls :
          storeOrUpdate(i, s, token, uid, msToLive, originUrl, TRUE)
    \/ \E i \in Slots, s \in Stores, uid \in Uids : invalidateUser(i, s, uid, TRUE)
    \/ \E i \in Slots, s \in Stores : clear(i, s, TRUE)
    \/ \E i \in Slots, s \in Stores : length(i, s, TRUE)
    \/ \E i \in Slots, ok \in BOOLEAN : SelectReply(i, ok)
    \/ \E i \in Slots, ok \in BOOLEAN : HgetallReply(i, ok)
    \/ \E i \in Slots, ok \in BOOLEAN : CompareReply(i, ok)
    \/ \E i \in Slots, ok \in BOOLEAN : HashReply(i, ok)
    \/ \E i \in Slots, ok \in BOOLEAN : HmsetReply(i, ok)
    \/ \E i \in Slots, ok \in BOOLEAN : ExpireReply(i, ok)
    \/ \E i \in Slots, ok \in BOOLEAN : DelReply(i, ok)
    \/ \E i \in Slots, ok \in BOOLEAN : KeysReply(i, ok)
    \/ \E i \in Slots, ok \in BOOLEAN :
          \E key \in ops[i].pending : DelEachReply(i, key, ok)
    \/ \E i \in Slots : Return(i)
    \/ Tick

Spec == Init /\ [][Next]_vars

\* the constructor alone, called with every combination of arguments
InitNew ==
    /\ now = 0
    /\ data = EmptyMap
    /\ expiry = EmptyMap
    /\ wrote = EmptyMap
    /\ last = EmptyMap
    /\ salts = 0
    /\ cleared = [s \in {1} |-> -1]
    /\ ops = [i \in {1} |-> IdleOp]
    /\ inst = [s \in {1} |-> NotConstructed]
    /\ \E port \in Ports, database \in Databases, tokenkey \in TokenKeys,
          client \in BOOLEAN :
          ctor = [phase |-> "call", port |-> port, host |-> Undefined,
                  options |-> [database |-> database, tokenkey |-> tokenkey,
                               client |-> client],
                  out |-> NotConstructed]

NextNew == New

SpecNew == InitNew /\ [][NextNew]_vars

\* two stores on one Redis database whose token keys differ: the default, and
\* either an extension of it or an unrelated one; they store, count and clear
InitShared ==
    /\ Start({1, 2})
    /\ \E tokenkey \in TokenKeys \ {Undefined} :
          inst = [s \in {1, 2} |->
                    RedisStore(Undefined, Undefined,
                               IF s = 1 THEN NoOptions
                               ELSE [NoOptions EXCEPT !.tokenkey = tokenkey])]

NextShared ==
    \/ \E i \in Slots, s \in Stores, uid \in Uids, msToLive \in Lifetimes :
          storeOrUpdate(i, s, Str(<<"A">>), uid, msToLive, Null, TRUE)
    \/ \E i \in Slots, s \in Stores : clear(i, s, TRUE)
    \/ \E i \in Slots, s \in Stores : length(i, s, TRUE)
    \/ \E i \in Slots, ok \in BOOLEAN : SelectReply(i, ok)
    \/ \E i \in Slots, ok \in BOOLEAN : HashReply(i, ok)
    \/ \E i \in Slots, ok \in BOOLEAN : HmsetReply(i, ok)
    \/ \E i \in Slots, ok \in BOOLEAN : ExpireReply(i, ok)
    \/ \E i \in Slots, ok \in BOOLEAN : KeysReply(i, ok)
    \/ \E i \in Slots, ok \in BOOLEAN :
          \E key \in ops[i].pending : DelEachReply(i, key, ok)
    \/ \E i \in Slots : Return(i)
    \/ Tick

SpecShared == InitShared /\ [][NextShared]_vars

\* one store whose caller passes any arguments, valid or not
NextArgs ==
    \/ \E i \in Slots, s \in Stores, token \in ArgTokens, uid \in ArgUids,
          callback \in BOOLEAN :
          authenticate(i, s, token, uid, callback)
    \/ \E i \in Slots, s \in Stores, token \in ArgTokens, uid \in ArgUids,
          msToLive \in ArgLifetimes, callback \in BOOLEAN :
          storeOrUpdate(i, s, token, uid, msToLive, Null, callback)
    \/ \E i \in Slots, s \in Stores, uid \in ArgUids, callback \in BOOLEAN :
          invalidateUser(i, s, uid, callback)
    \/ \E i \in Slots, s \in Stores, callback \in BOOLEAN : clear(i, s, callback)
    \/ \E i \in Slots, s \in Stores, callback \in BOOLEAN : length(i, s, callback)
    \/ \E i \in Slots, ok \in BOOLEAN : SelectReply(i, ok)
    \/ \E i \in Slots, ok \in BOOLEAN : HgetallReply(i, ok)
    \/ \E i \in Slots, ok \in BOOLEAN : CompareReply(i, ok)
    \/ \E i \in Slots, ok \in BOOLEAN : HashReply(i, ok)
    \/ \E i \in Slots, ok \in BOOLEAN : HmsetReply(i, ok)
    \/ \E i \in Slots, ok \in BOOLEAN : ExpireReply(i, ok)
    \/ \E i \in Slots, ok \in BOOLEAN : DelReply(i, ok)
    \/ \E i \in Slots, ok \in BOOLEAN : KeysReply(i, ok)
    \/ \E i \in Slots, ok \in BOOLEAN :
          \E key \in ops[i].pending : DelEachReply(i, key, ok)
    \/ \E i \in Slots : Return(i)
    \/ Tick

SpecArgs == Init /\ [][NextArgs]_vars

\* the variant with redisstore.rounds: one store, constructed with each option
InitMinRounds ==
    /\ now = 0
    /\ data = EmptyMap
    /\ expiry = EmptyMap
    /\ wrote = EmptyMap
    /\ last = EmptyMap
    /\ salts = 0
    /\ cleared = [s \in {1} |-> -1]
    /\ ops = [i \in {1} |-> IdleOp]
    /\ \E rounds \in RoundsOptions :
          LET options == [database |-> Undefined, tokenkey |-> Undefined,
                          rounds |-> rounds]
              store == RedisStoreMinRounds(Undefined, Undefined, options)
          IN  /\ ctor = [phase |-> "returned", port |-> Undefined,
                         host |-> Undefined, options |-> options, out |-> store]
              /\ inst = [s \in {1} |-> store]

NextMinRounds ==
    \/ \E i \in Slots, s \in Stores, token \in Tokens, uid \in Uids,
          msToLive \in Lifetimes, originUrl \in OriginUrls :
          storeOrUpdateMinRounds(i, s, token, uid, msToLive, originUrl, TRUE)
    \/ \E i \in Slots, ok \in BOOLEAN : SelectReplyMinRounds(i, ok)
    \/ \E i \in Slots : Return(i)
    \/ Tick

SpecMinRounds == InitMinRounds /\ [][NextMinRounds]_vars

\* one store, freshly constructed, whose caller starts a second operation while
\* the first is between its call and its callback; no timeout passes meanwhile
InitRace ==
    /\ now = 0
    /\ data = EmptyMap
    /\ expiry = EmptyMap
    /\ wrote = EmptyMap
    /\ last = EmptyMap
    /\ salts = 0
    /\ cleared = [s \in {1} |-> -1]
    /\ ops = [i \in {1, 2} |-> IdleOp]
    /\ ctor = NoCall
    /\ inst = [s \in {1} |-> RedisStore(Undefined, Undefined, NoOptions)]

NextRace ==
    \/ \E i \in Slots, s \in Stores :
          authenticate(i, s, Str(<<"A">>), Str(<<"u">>), TRUE)
    \/ \E i \in Slots, s \in Stores :
          storeOrUpdate(i, s, Str(<<"A">>), Str(<<"u">>), Num(500), Null, TRUE)
    \/ \E i \in Slots, s \in Stores : invalidateUser(i, s, Str(<<"u">>), TRUE)
    \/ \E i \in Slots, s \in Stores : clear(i, s, TRUE)
    \/ \E i \in Slots, s \in Stores : length(i, s, TRUE)
    \/ \E i \in Slots, ok \in BOOLEAN : SelectReply(i, ok)
    \/ \E i \in Slots, ok \in BOOLEAN : HgetallReply(i, ok)
    \/ \E i \in Slots, ok \in BOOLEAN : CompareReply(i, ok)
    \/ \E i \in Slots, ok \in BOOLEAN : HashReply(i, ok)
    \/ \E i \in Slots, ok \in BOOLEAN : HmsetReply(i, ok)
    \/ \E i \in Slots, ok \in BOOLEAN : ExpireReply(i, ok)
    \/ \E i \in Slots, ok \in BOOLEAN : DelReply(i, ok)
    \/ \E i \in Slots, ok \in BOOLEAN : KeysReply(i, ok)
    \/ \E i \in Slots, ok \in BOOLEAN :
          \E key \in ops[i].pending : DelEachReply(i, key, ok)
    \/ \E i \in Slots : Return(i)

SpecRace == InitRace /\ [][NextRace]_vars

\* the lifetime each store gives its tokens: the longer one outlasts the Redis
\* timeout of the shorter one
LifetimeOf(s) == IF s = 1 THEN Num(500) ELSE Num(2500)

\* the token each store hands out for the uid
TokenOf(s) == IF s = 1 THEN Str(<<"A">>) ELSE Str(<<"B">>)

\* the URL each store's caller was asked for, if any
OriginOf(s) == IF s = 1 THEN Null ELSE Str(<<"/", "o">>)

\* two stores with the same token key, each with a connection of its own (two
\* processes of one application) on which the database was selected by an
\* earlier operation: store s runs its operations in slot s, and Redis applies
\* the commands of the two connections in any order
InitConc ==
    /\ now = 0
    /\ data = EmptyMap
    /\ expiry = EmptyMap
    /\ wrote = EmptyMap
    /\ last = EmptyMap
    /\ salts = 0
    /\ cleared = [s \in {1, 2} |-> -1]
    /\ ops = [i \in {1, 2} |-> IdleOp]
    /\ ctor = NoCall
    /\ inst = [s \in {1, 2} |->
                 [RedisStore(Undefined, Undefined, NoOptions)
                     EXCEPT !._selected = TRUE]]

NextConc ==
    \/ \E s \in Stores, token \in Tokens :
          authenticate(s, s, token, Str(<<"u">>), TRUE)
    \/ \E s \in Stores :
          storeOrUpdate(s, s, TokenOf(s), Str(<<"u">>), LifetimeOf(s), OriginOf(s),
                        TRUE)
    \/ \E i \in Slots, ok \in BOOLEAN : HgetallReply(i, ok)
    \/ \E i \in Slots, ok \in BOOLEAN : CompareReply(i, ok)
    \/ \E i \in Slots, ok \in BOOLEAN : HashReply(i, ok)
    \/ \E i \in Slots, ok \in BOOLEAN : HmsetReply(i, ok)
    \/ \E i \in Slots, ok \in BOOLEAN : ExpireReply(i, ok)
    \/ \E i \in Slots : Return(i)
    \/ Tick

SpecConc == InitConc /\ [][NextConc]_vars

\* the uid whose operations run in a slot
UidOf(i) == IF i = 1 THEN Str(<<"u">>) ELSE Str(<<"x", "u">>)

\* one store on which the database was selected by an earlier operation, and
\* two uids: the operations for one uid run while those for the other are
\* under way, and their replies arrive in any order
InitUids ==
    /\ now = 0
    /\ data = EmptyMap
    /\ expiry = EmptyMap
    /\ wrote = EmptyMap
    /\ last = EmptyMap
    /\ salts = 0
    /\ cleared = [s \in {1} |-> -1]
    /\ ops = [i \in {1, 2} |-> IdleOp]
    /\ ctor = NoCall
    /\ inst = [s \in {1} |->
                 [RedisStore(Undefined, Undefined, NoOptions)
                     EXCEPT !._selected = TRUE]]

NextUids ==
    \/ \E i \in Slots, s \in Stores :
          authenticate(i, s, Str(<<"A">>), UidOf(i), TRUE)
    \/ \E i \in Slots, s \in Stores :
          storeOrUpdate(i, s, Str(<<"A">>), UidOf(i), Num(500), Null, TRUE)
    \/ \E i \in Slots, s \in Stores : invalidateUser(i, s, UidOf(i), TRUE)
    \/ \E i \in Slots, ok \in BOOLEAN : HgetallReply(i, ok)
    \/ \E i \in Slots, ok \in BOOLEAN : CompareReply(i, ok)
    \/ \E i \in Slots, ok \in BOOLEAN : HashReply(i, ok)
    \/ \E i \in Slots, ok \in BOOLEAN : HmsetReply(i, ok)
    \/ \E i \in Slots, ok \in BOOLEAN : ExpireReply(i, ok)
    \/ \E i \in Slots, ok \in BOOLEAN : DelReply(i, ok)
    \/ \E i \in Slots : Return(i)
    \/ Tick

SpecUids == InitUids /\ [][NextUids]_vars

\* the callback of a command the operation in slot i is waiting for is called,
\* with or without an error
Reply(i) ==
    \/ \E ok \in BOOLEAN : SelectReply(i, ok)
    \/ \E ok \in BOOLEAN : HgetallReply(i, ok)
    \/ \E ok \in BOOLEAN : CompareReply(i, ok)
    \/ \E ok \in BOOLEAN : HashReply(i, ok)
    \/ \E ok \in BOOLEAN : HmsetReply(i, ok)
    \/ \E ok \in BOOLEAN : ExpireReply(i, ok)
    \/ \E ok \in BOOLEAN : DelReply(i, ok)
    \/ \E ok \in BOOLEAN : KeysReply(i, ok)
    \/ \E ok \in BOOLEAN : \E key \in ops[i].pending : DelEachReply(i, key, ok)

\* one store, a sequential caller passing valid arguments
NextLive ==
    \/ \E i \in Slots, s \in Stores, uid \in Uids :
          authenticate(i, s, Str(<<"A">>), uid, TRUE)
    \/ \E i \in Slots, s \in Stores, uid \in Uids :
          storeOrUpdate(i, s, Str(<<"A">>), uid, Num(500), Null, TRUE)
    \/ \E i \in Slots, s \in Stores, uid \in Uids : invalidateUser(i, s, uid, TRUE)
    \/ \E i \in Slots, s \in Stores : clear(i, s, TRUE)
    \/ \E i \in Slots, s \in Stores : length(i, s, TRUE)
    \/ \E i \in Slots : Reply(i)
    \/ \E i \in Slots : Return(i)
    \/ Tick

\* the redis client and bcrypt call every callback they were given, with the
\* result or with an error: a command that is waited for is answered
Answered == \A i \in {1} : WF_vars(Reply(i))

SpecLive == Init /\ [][NextLive]_vars /\ Answered

----------------------------------------------------------------------------
(* Claims *)

NoError(args) == Arg(args, 1) \in {Null, Undefined}

\* an authenticate that has called back and whose calls all succeeded
Authenticated(op) ==
    op.kind = "authenticate" /\ op.pc = "done" /\ op.fault = "none"

\* C1 (round trip): once storeOrUpdate(token, uid, msToLive, originUrl) has called
\* back without error, an authenticate(token, uid) that follows it with no other
\* operation on the uid in between, whose calls all succeed and which reads the
\* record no later than expiresAt, calls back with (null, true, originUrl), the
\* origin being the empty string when no originUrl was given.
C1_RoundTrip ==
    \A i \in Slots :
        LET op == ops[i]
            stored == LastOf(op.store, op.uid)
        IN  ( /\ Authenticated(op)
              /\ stored.state = "stored"
              /\ op.token = stored.token
              /\ op.at <= stored.expiresAt )
            => op.args = <<Null, True,
                           IF stored.originUrl \in {Null, Undefined} THEN Str(<<>>)
                           ELSE stored.originUrl>>

\* C2 (single token per user): the records in Redis written for one uid of one
\* store are at most one; and once storeOrUpdate(tokenA, uid) and then
\* storeOrUpdate(tokenB, uid) have called back without error (tokenA # tokenB), an
\* authenticate that follows, succeeds in its calls and reads no later than
\* expiresAt calls back with valid = false for tokenA and valid = true for tokenB.
C2_SingleTokenPerUser ==
    /\ \A k1 \in DOMAIN data : \A k2 \in DOMAIN data :
          (wrote[k1].store = wrote[k2].store /\ wrote[k1].uid = wrote[k2].uid)
          => k1 = k2
    /\ \A i \in Slots :
          LET op == ops[i]
              stored == LastOf(op.store, op.uid)
          IN  ( /\ Authenticated(op)
                /\ stored.state = "stored"
                /\ stored.prevState = "stored"
                /\ stored.prevToken # stored.token
                /\ op.at <= stored.expiresAt )
              => /\ op.token = stored.prevToken => Arg(op.args, 2) = False
                 /\ op.token = stored.token => Arg(op.args, 2) = True

\* the expiresAt of a record read from Redis
ExpiresAt(obj) == DigitsValue(obj.ttl)

\* C3 (expiry): an authenticate that reads a record with now > expiresAt calls back
\* at once with (null, false, null), whether or not the token matches, and never
\* calls bcrypt.compare; an authenticate that finds no record calls back with the
\* same (null, false, null).
C3_Expiry ==
    \A i \in Slots :
        LET op == ops[i] IN
        op.kind = "authenticate" =>
            /\ (op.obj # NoObj /\ op.at > ExpiresAt(op.obj))
               => /\ op.pc = "done"
                  /\ op.args = <<Null, False, Null>>
                  /\ \A c \in 1 .. Len(op.cmds) : op.cmds[c] # "compare"
            /\ (op.pc = "done" /\ op.fault = "none" /\ op.obj = NoObj)
               => op.args = <<Null, False, Null>>

\* an expired record that is still in Redis and whose token matches was read
C3_Witness ==
    \E i \in Slots :
        /\ ops[i].kind = "authenticate"
        /\ ops[i].pc = "done"
        /\ ops[i].obj # NoObj
        /\ ops[i].at > ExpiresAt(ops[i].obj)
        /\ ops[i].key \in DOMAIN data
        /\ BcryptCompare(JsString(ops[i].token), ops[i].obj.token)

\* C4 (invalidation): once invalidateUser(uid) has called back without error, and
\* until a storeOrUpdate for the uid is started, the uid has no record, an
\* authenticate for it whose calls succeed calls back with (null, false, null); an
\* invalidateUser whose calls succeed calls back without error also when the uid
\* had no record, and leaves the uid without record, so a second call changes
\* nothing.
C4_Invalidation ==
    /\ \A h \in DOMAIN last :
          last[h].state = "invalidated"
          => /\ KeyOf(h[1], h[2]) \notin DOMAIN data
             /\ KeyOf(h[1], h[2]) \notin DOMAIN expiry
    /\ \A i \in Slots :
          LET op == ops[i] IN
          /\ (Authenticated(op) /\ LastOf(op.store, op.uid).state = "invalidated")
             => op.args = <<Null, False, Null>>
          /\ (op.kind = "invalidateUser" /\ op.pc = "done" /\ op.fault = "none")
             => /\ NoError(op.args)
                /\ LastOf(op.store, op.uid).state = "invalidated"

\* a token was stored, its uid invalidated twice (the second time without a
\* record), and an authenticate with the token was then refused
C4_Witness ==
    \E i \in Slots :
        LET op == ops[i]
            l == LastOf(op.store, op.uid)
        IN  /\ Authenticated(op)
            /\ l.state = "invalidated"
            /\ l.prevState = "stored"
            /\ l.times = 2
            /\ op.token = l.prevToken
            /\ op.args = <<Null, False, Null>>

\* C5 (namespace isolation): when two stores have different token keys, every key
\* length() of one counts and every key clear() of one deletes was written by
\* that store.
C5_NamespaceIsolation ==
    \A i \in Slots :
        LET op == ops[i] IN
        ( /\ op.kind \in {"length", "clear"}
          /\ \A s \in Stores : \A t \in Stores :
                s # t => inst[s]._tokenKey # inst[t]._tokenKey )
        => op.owners \subseteq {op.store}

\* C6 (clear): once clear() has called back without error, and until a storeOrUpdate
\* is started, a length() whose calls succeed calls back with (null, 0) and an
\* authenticate whose calls succeed is refused; a clear() that finds no key calls
\* back without error and sends no DEL.
C6_Clear ==
    \A i \in Slots :
        LET op == ops[i] IN
        /\ (op.kind = "length" /\ op.pc = "done" /\ op.fault = "none"
               /\ cleared[op.store] >= 0)
           => op.args = <<Null, Num(0)>>
        /\ (Authenticated(op) /\ cleared[op.store] >= 0)
           => Arg(op.args, 2) = False
        /\ (op.kind = "clear" /\ op.pc = "done" /\ op.fault = "none"
               /\ op.matches = {})
           => /\ NoError(op.args)
              /\ op.called = 1
              /\ \A c \in 1 .. Len(op.cmds) : op.cmds[c] # "del"

\* two records were cleared and length() then returned 0
C6_Witness ==
    \E i \in Slots :
        /\ ops[i].kind = "length"
        /\ ops[i].pc = "done"
        /\ cleared[ops[i].store] >= 2
        /\ ops[i].args = <<Null, Num(0)>>

\* C7 (error tuple of authenticate): when SELECT, HGETALL or bcrypt.compare fails,
\* authenticate calls back with that error, valid = false and origin = null;
\* valid = true never comes with an error.
C7_AuthenticateErrorTuple ==
    \A i \in Slots :
        LET op == ops[i] IN
        (op.kind = "authenticate" /\ op.pc = "done")
        => /\ op.called = 1
           /\ op.fault # "none" => op.args = <<Err(op.fault), False, Null>>
           /\ op.fault = "none" => Arg(op.args, 1) = Null
           /\ Arg(op.args, 2) = True => NoError(op.args)
           /\ ~NoError(op.args) => (Arg(op.args, 2) = False /\ Arg(op.args, 3) = Null)

\* bcrypt.compare failed on a record that was read
C7_Witness ==
    \E i \in Slots :
        /\ ops[i].kind = "authenticate"
        /\ ops[i].pc = "done"
        /\ ops[i].fault = "compare"
        /\ ops[i].obj # NoObj
        /\ ops[i].args = <<Err("compare"), False, Null>>

\* C8 (hash non-disclosure): the token field of every record in Redis is a bcrypt
\* hash of the token given to the storeOrUpdate that wrote it, and is not that
\* token.
C8_HashedOnly ==
    \A k \in DOMAIN data :
        /\ data[k].token.alg = "bcrypt"
        /\ data[k].token # PlainText(JsString(wrote[k].token))
        /\ \A token \in Tokens : data[k].token # PlainText(JsString(token))
        /\ BcryptCompare(JsString(wrote[k].token), data[k].token)

\* a storeOrUpdate has called back and its record is in Redis
C8_Witness ==
    \E i \in Slots :
        /\ ops[i].kind = "storeOrUpdate"
        /\ ops[i].pc = "done"
        /\ NoError(ops[i].args)
        /\ ops[i].key \in DOMAIN data
        /\ data[ops[i].key] = ops[i].obj

\* C9 (salting): two storeOrUpdate calls for one uid with the same token, one after
\* the other and both calling back without error, persist different hashes, and an
\* authenticate with the token that follows, succeeds in its calls and reads no
\* later than expiresAt calls back with valid = true.
C9_Salting ==
    /\ \A h \in DOMAIN last :
          ( /\ last[h].state = "stored"
            /\ last[h].prevState = "stored"
            /\ last[h].prevToken = last[h].token )
          => last[h].hash # last[h].prevHash
    /\ \A i \in Slots :
          LET op == ops[i]
              stored == LastOf(op.store, op.uid)
          IN  ( /\ Authenticated(op)
                /\ stored.state = "stored"
                /\ stored.prevState = "stored"
                /\ stored.prevToken = stored.token
                /\ op.token = stored.token
                /\ op.at <= stored.expiresAt )
              => /\ Arg(op.args, 2) = True
                 /\ op.obj.token = stored.hash

\* a database option that is given and is neither a number nor a string of digits
NonNumeric(v) ==
    /\ v \notin {Undefined, Null}
    /\ v.t # "number"
    /\ ~(v.t = "string" /\ v.s # <<>> /\ LeadingDigits(v.s) = v.s)

\* C10 (invalid construction): new RedisStore with a database option that is not
\* numeric throws, before a client is created, and never takes database 0 instead.
C10_InvalidConstruction ==
    (ctor.phase = "returned" /\ NonNumeric(ctor.options.database))
    => /\ ctor.out.threw
       /\ ~ctor.out.createdClient
       /\ ctor.out._database # Num(DefaultDatabase)

\* a required parameter that is missing or empty
Missing(v) == v \in {Undefined, Null, Str(<<>>)}

\* the operation of slot i has thrown before doing anything: no command was sent,
\* the callback was not called, Redis and the stores are as they were
ThrewBeforeIO(i) ==
    /\ ops'[i].pc = "threw"
    /\ ops'[i].cmds = <<>>
    /\ ops'[i].called = 0
    /\ data' = data
    /\ expiry' = expiry
    /\ inst' = inst

\* C11 (invalid arguments fail before I/O): a call of authenticate, storeOrUpdate,
\* invalidateUser, clear or length in which the token, the uid or the callback is
\* missing or empty, or (storeOrUpdate) msToLive is missing or not numeric, throws:
\* no command is sent, not even SELECT, the callback is not called, and the
\* records, their timeouts and the selected flag stay as they were.
C11_InvalidArguments ==
    [][\A i \in Slots, s \in Stores :
         /\ \A token \in ArgTokens, uid \in ArgUids, callback \in BOOLEAN :
               ( /\ authenticate(i, s, token, uid, callback)
                 /\ (Missing(token) \/ Missing(uid) \/ ~callback) )
               => ThrewBeforeIO(i)
         /\ \A token \in ArgTokens, uid \in ArgUids, msToLive \in ArgLifetimes,
                callback \in BOOLEAN :
               ( /\ storeOrUpdate(i, s, token, uid, msToLive, Null, callback)
                 /\ \/ Missing(token) \/ Missing(uid) \/ ~callback
                    \/ Missing(msToLive) \/ NonNumeric(msToLive) )
               => ThrewBeforeIO(i)
         /\ \A uid \in ArgUids, callback \in BOOLEAN :
               (invalidateUser(i, s, uid, callback) /\ (Missing(uid) \/ ~callback))
               => ThrewBeforeIO(i)
         /\ (clear(i, s, FALSE) \/ length(i, s, FALSE)) => ThrewBeforeIO(i)
      ]_vars

\* storeOrUpdate has thrown in a store that is selected and holds a record
C11_Witness ==
    \E i \in Slots :
        /\ ops[i].pc = "threw"
        /\ ops[i].kind = "storeOrUpdate"
        /\ inst[ops[i].store]._selected
        /\ data # EmptyMap

\* the cost the store was constructed with is absent or a number that is at
\* least the minimum
ValidRounds(rounds) ==
    rounds = Undefined \/ (rounds.t = "number" /\ rounds.n >= BcryptMinRounds)

\* C12 (minimum hash cost): a store configured with a cost under the minimum
\* rejects storeOrUpdate with the configuration error and writes no record; a
\* store whose cost is valid or left to the default carries storeOrUpdate through
\* (it does not throw once its arguments are accepted), and every bcrypt.hash is
\* called with an integer cost that is at least the minimum.
C12_MinimumCost ==
    \A i \in Slots :
        LET op == ops[i] IN
        (op.kind = "storeOrUpdate" /\ ctor.phase = "returned")
        => /\ ValidRounds(ctor.options.rounds) => op.pc # "threw"
           /\ ~ValidRounds(ctor.options.rounds)
              => /\ op.pc = "threw" => op.fault = "rounds"
                 /\ op.pc \notin {"hash", "hmset", "expire"}
                 /\ data = EmptyMap
           /\ op.pc = "hash"
              => (op.rounds.t = "number" /\ op.rounds.n >= BcryptMinRounds)

\* s is the start of t
IsPrefix(s, t) == Len(s) <= Len(t) /\ s = SubSeq(t, 1, Len(s))

\* C13 (step order and partial failure of storeOrUpdate): the calls are made in
\* the order select (when the database is not selected yet), hash, hmset, expire,
\* each after the one before has succeeded; a failed call is the last one and its
\* error goes to the callback; when hmset fails no expire is sent; when expire
\* fails after hmset succeeded, the callback gets the error and the new record is
\* in Redis without a timeout.
C13_StepOrder ==
    \A i \in Slots :
        LET op == ops[i] IN
        op.kind = "storeOrUpdate" =>
            /\ \/ IsPrefix(op.cmds, <<"select", "hash", "hmset", "expire">>)
               \/ IsPrefix(op.cmds, <<"hash", "hmset", "expire">>)
            /\ op.fault # "none"
               => /\ op.cmds[Len(op.cmds)] = op.fault
                  /\ Arg(op.args, 1) = Err(op.fault)
                  /\ op.called = 1
            /\ (op.pc = "done" /\ op.fault = "expire")
               => /\ op.key \in DOMAIN data
                  /\ data[op.key] = op.obj
                  /\ op.key \notin DOMAIN expiry

\* C14 (physical eviction never precedes logical expiry): when Redis deletes a
\* key because its timeout has passed, the record it held is past its expiresAt.
C14_NoEarlyEviction ==
    [][\A k \in DOMAIN data :
          (k \notin DOMAIN data' /\ k \in DOMAIN expiry /\ now' > expiry[k])
          => now' > ExpiresAt(data[k])
      ]_vars

\* a command that reads or writes the records
DataCommands == {"hgetall", "hmset", "expire", "del", "keys"}

\* C15 (lazy selection): an operation started on a store whose database is not
\* selected sends SELECT first, one started on a store whose database is selected
\* sends none; the flag, once set by a SELECT that succeeded, stays set; a SELECT
\* that fails leaves the flag as it was, its error goes to the callback and the
\* operation sends nothing more.
C15_LazySelection ==
    [][\A i \in Slots :
          /\ (ops[i].pc = "idle" /\ ops'[i].pc \notin {"idle", "threw"})
             => IF inst[ops'[i].store]._selected
                THEN ops'[i].cmds = <<FirstCall(ops'[i].kind)>>
                ELSE ops'[i].cmds = <<"select">>
          /\ \A s \in Stores : inst[s]._selected => inst'[s]._selected
          /\ (ops[i].pc = "select" /\ ops'[i].pc # "select")
             => IF ops'[i].fault = "select"
                THEN /\ inst' = inst
                     /\ ops'[i].pc = "done"
                     /\ ops'[i].cmds = <<"select">>
                     /\ ops'[i].called = 1
                     /\ Arg(ops'[i].args, 1) = Err("select")
                ELSE /\ ~inst[ops[i].store]._selected
                     /\ inst'[ops[i].store]._selected
                     /\ ops'[i].cmds = <<"select", FirstCall(ops[i].kind)>>
      ]_vars

\* an operation started after the database was selected has finished without
\* sending SELECT
C15_Witness ==
    \E i \in Slots :
        /\ ops[i].pc = "done"
        /\ ops[i].cmds # <<>>
        /\ ops[i].cmds[1] \in DataCommands
        /\ inst[ops[i].store]._selected


\* C16: on an instance on which no SELECT has succeeded yet, every operation
\* that is started sends a SELECT of its own as its first command; when its
\* SELECT succeeds it goes on to the first call of its own; and whatever the
\* order of the replies, an operation that has sent a command reading, writing,
\* deleting or enumerating keys belongs to an instance one of whose SELECTs has
\* succeeded.
C16_SelectionRace ==
    [][\A i \in Slots :
          LET op == ops[i]
              next == ops'[i]
          IN
          /\ (op.pc = "idle" /\ next.pc \notin {"idle", "threw"}
              /\ ~inst[next.store]._selected)
             => next.cmds = <<"select">>
          /\ (op.pc = "select" /\ next.pc # "select" /\ next.fault # "select")
             => /\ inst'[op.store]._selected
                /\ next.cmds = <<"select", FirstCall(op.kind)>>
          /\ (\E c \in 1 .. Len(next.cmds) : next.cmds[c] \in DataCommands)
             => inst'[next.store]._selected
      ]_vars

\* two operations that each sent a SELECT of their own have both gone on to
\* their data commands
C16_Witness ==
    \A i \in Slots :
        /\ Len(ops[i].cmds) >= 2
        /\ ops[i].cmds[1] = "select"
        /\ ops[i].cmds[2] \in DataCommands


\* history: the record two overlapping storeOrUpdate calls left under key, both
\* having called back without error, none being under way
Settled(key) ==
    {h \in Records(key) : last[h].state = "stored" /\ last[h].times = 2}

\* C17: once two storeOrUpdate calls for one uid that ran at the same time have
\* both called back without error, the record under the key is the one of the
\* call whose HMSET was applied last, for as long as it has not expired: an
\* authenticate that reads the key then (its own calls succeeding) finds that
\* record, and answers true for the token of that call and false for the token
\* of the other.
C17_LastWriteWins ==
    [][\A i \in Slots :
          LET op == ops[i]
              next == ops'[i]
          IN
          /\ (op.pc = "hgetall" /\ next.pc # "hgetall" /\ next.fault = "none")
             => \A h \in Settled(op.key) :
                   now <= last[h].expiresAt
                   => /\ op.key \in DOMAIN data
                      /\ data[op.key].token = last[h].hash
                      /\ ExpiresAt(data[op.key]) = last[h].expiresAt
                      /\ next.pc = "compare"
                      /\ next.obj = data[op.key]
                      /\ BcryptCompare(JsString(op.token), next.obj.token)
                         <=> op.token = last[h].token
          /\ (op.pc = "compare" /\ next.pc = "done" /\ next.fault = "none")
             => Arg(next.args, 2) =
                   IF BcryptCompare(JsString(op.token), op.obj.token)
                   THEN True ELSE False
      ]_vars


\* C18: every record in Redis has its three fields from one storeOrUpdate
\* call, the one whose HMSET wrote the key last: the hash is that of the call's
\* token under the call's salt, origin is the call's originUrl ('' when the call
\* had none) and ttl is the time of the call plus its msToLive; no record lacks
\* its hash or its ttl.  This holds whatever the order in which Redis applies
\* the commands of calls for one uid.
C18_AtomicRecord ==
    \A k \in DOMAIN data :
        /\ k \in DOMAIN wrote
        /\ LET call == wrote[k]
               obj == data[k]
           IN  /\ obj.token.alg = "bcrypt"
               /\ obj.token.body = JsString(call.token)
               /\ obj.token.salt = call.salt
               /\ obj.origin = (IF call.originUrl = Null THEN <<>>
                                ELSE call.originUrl.s)
               /\ obj.ttl # <<>>
               /\ ExpiresAt(obj) = call.at + call.msToLive.n

\* the record of a call whose HMSET overwrote the record of a call that was
\* under way at the same time
C18_Witness ==
    \E k \in DOMAIN data :
        \E h \in Records(k) :
            /\ last[h].times = 2
            /\ last[h].hash = data[k].token


\* C19: a step of storeOrUpdate, authenticate or invalidateUser for a uid
\* leaves the record of every other uid, and its Redis timeout, as they are: it
\* neither changes nor deletes a record another uid's call wrote, and a key it
\* creates is its own uid's; and what authenticate reads is the record of its
\* own uid or nothing, whatever operations for other uids are under way.
C19_UidIndependence ==
    [][\A i \in Slots :
          LET op == IF ops[i].kind = "idle" THEN ops'[i] ELSE ops[i]
              next == ops'[i]
          IN
          (ops'[i] # ops[i]
           /\ op.kind \in {"storeOrUpdate", "authenticate", "invalidateUser"})
          => /\ \A k \in DOMAIN data :
                   wrote[k].uid # op.uid
                   => /\ k \in DOMAIN data'
                      /\ data'[k] = data[k]
                      /\ k \in DOMAIN expiry <=> k \in DOMAIN expiry'
                      /\ k \in DOMAIN expiry => expiry'[k] = expiry[k]
             /\ \A k \in DOMAIN data' \ DOMAIN data : wrote'[k].uid = op.uid
             /\ (ops[i].pc = "hgetall" /\ next.pc # "hgetall" /\ next.fault = "none")
                => \/ next.obj = NoObj
                   \/ /\ op.key \in DOMAIN data
                      /\ next.obj = data[op.key]
                      /\ wrote[op.key].uid = op.uid
      ]_vars

\* the record of a uid is in Redis while a storeOrUpdate or an invalidateUser
\* for another uid has just changed Redis
C19_Witness ==
    \E i \in Slots :
        /\ ops[i].kind \in {"storeOrUpdate", "invalidateUser"}
        /\ ops[i].pc \in {"expire", "done"}
        /\ ops[i].fault = "none"
        /\ \E k \in DOMAIN data :
              /\ wrote[k].uid # ops[i].uid
              /\ k \in DOMAIN expiry


\* the commands authenticate makes: none writes, sets a timeout or deletes
ReadCommands == {"select", "hgetall", "compare"}

\* a step of an authenticate in slot i leaves every record and every timeout
\* as it is, and sends no command but SELECT, HGETALL and the comparison
AuthenticateReadsOnly(i) ==
    (ops'[i] # ops[i] /\ "authenticate" \in {ops[i].kind, ops'[i].kind})
    => /\ data' = data
       /\ expiry' = expiry
       /\ \A c \in 1 .. Len(ops'[i].cmds) : ops'[i].cmds[c] \in ReadCommands

\* an authenticate in slot i that reads the key of a token that was stored
\* (the storeOrUpdate called back without error), is not past its expiresAt,
\* and was neither overwritten nor invalidated since, finds its record, and
\* answers true for the token
AuthenticateAgain(i) ==
    LET op == ops[i]
        next == ops'[i]
    IN
    /\ (op.pc = "hgetall" /\ next.pc # "hgetall" /\ next.fault = "none")
       => \A h \in Records(op.key) :
             (last[h].state = "stored" /\ now <= last[h].expiresAt
              /\ op.token = last[h].token)
             => /\ next.pc = "compare"
                /\ next.obj = data[op.key]
                /\ BcryptCompare(JsString(op.token), next.obj.token)
    /\ (op.pc = "compare" /\ next.pc = "done" /\ next.fault = "none"
        /\ BcryptCompare(JsString(op.token), op.obj.token))
       => /\ Arg(next.args, 1) = Null
          /\ Arg(next.args, 2) = True

\* C20: authenticate sends no command that writes, sets a timeout or deletes,
\* and leaves every record and every Redis timeout unchanged whether it
\* succeeds or fails; so a token that was stored authenticates every time it
\* is tried (the calls of authenticate succeeding) until its expiresAt has
\* passed, it is overwritten, or it is invalidated.
C20_AuthenticateNonMutating ==
    [][\A i \in Slots : AuthenticateReadsOnly(i) /\ AuthenticateAgain(i)]_vars


\* the callback of the operation was called with an error as its first argument
CalledWithError(op) == op.called >= 1 /\ Arg(op.args, 1).t = "error"

\* the callback of the operation was called without error
CalledWithoutError(op) == op.called >= 1 /\ NoError(op.args)

\* C21 (partial failure of clear): when KEYS fails, clear has called back with
\* that error and sent no DEL; from the moment the DEL of one of the keys KEYS
\* returned has failed, clear has called back, once, with the error of a DEL, so
\* with the first one that failed; and clear has called back without error only
\* when SELECT (if sent) and KEYS succeeded, every key KEYS returned has had its
\* DEL answered, and none of these DELs failed.
C21_ClearPartialFailure ==
    \A i \in Slots :
        LET op == ops[i] IN
        op.kind = "clear" =>
            /\ op.fault = "keys"
               => /\ op.called = 1
                  /\ op.args = <<Err("keys")>>
                  /\ op.pc = "done"
                  /\ \A c \in 1 .. Len(op.cmds) : op.cmds[c] # "del"
            /\ op.failed # {}
               => /\ op.called = 1
                  /\ op.args = <<Err("del")>>
            /\ CalledWithoutError(op)
               => /\ op.called = 1
                  /\ op.pc = "done"
                  /\ op.fault = "none"
                  /\ \E c \in 1 .. Len(op.cmds) : op.cmds[c] = "keys"
                  /\ op.failed = {}
                  /\ op.pending = {}

\* clear found two keys; the DEL of one failed and the DEL of the other
\* succeeded, and the callback of clear has the error
C21_Witness ==
    \E i \in Slots :
        /\ ops[i].kind = "clear"
        /\ ops[i].pc = "done"
        /\ Cardinality(ops[i].matches) = 2
        /\ Cardinality(ops[i].failed) = 1
        /\ CalledWithError(ops[i])


\* how often the operation has sent the command
Sent(op, call) == Cardinality({c \in 1 .. Len(op.cmds) : op.cmds[c] = call})

\* the operation in slot i was accepted: its arguments passed the check
Accepted(i) == ops[i].pc \notin {"idle", "threw"}

\* an accepted operation never calls its callback twice and has called it when
\* it is over; it sends SELECT, HGETALL, HMSET, EXPIRE and KEYS and each call of
\* bcrypt at most once, and DEL once (invalidateUser) or once for each key KEYS
\* returned (clear); an error it met has gone to the callback
OnceOnly(i) ==
    LET op == ops[i] IN
    Accepted(i) =>
        /\ op.called <= 1
        /\ op.pc = "done" => op.called = 1
        /\ \A call \in (ReadCommands \cup DataCommands \cup {"hash"}) \ {"del"} :
              Sent(op, call) <= 1
        /\ Sent(op, "del") <= (IF op.kind = "clear" THEN Cardinality(op.matches) ELSE 1)
        /\ (op.fault # "none" \/ op.failed # {}) => CalledWithError(op)

\* once a command of the operation in slot i has failed, or its callback has
\* been called, the operation sends nothing more and calls nothing more
NothingAfter(i) ==
    (Accepted(i) /\ ops'[i].pc # "idle"
     /\ (ops[i].fault # "none" \/ ops[i].failed # {} \/ ops[i].called = 1))
    => /\ ops'[i].cmds = ops[i].cmds
       /\ ops'[i].called = ops[i].called
       /\ ops'[i].args = ops[i].args

\* C22 (exactly-once completion, no retries): given that every command that is
\* waited for is answered, with a result or an error, an operation that was
\* accepted calls its callback in the end, and never twice, whether it succeeds,
\* finds nothing, or fails at SELECT, at a Redis command, at bcrypt or at one or
\* several of the DELs of clear; it sends no command twice; and after a command
\* of it has failed it sends no further command.
C22_ExactlyOnce ==
    /\ [](\A i \in Slots : OnceOnly(i))
    /\ [][\A i \in Slots : NothingAfter(i)]_vars
    /\ \A i \in {1} : Accepted(i) ~> (ops[i].called = 1)

\* clear found two keys and both DELs failed; its callback was called once
C22_Witness ==
    \E i \in Slots :
        /\ ops[i].kind = "clear"
        /\ ops[i].pc = "done"
        /\ Cardinality(ops[i].failed) = 2
        /\ ops[i].called = 1

============================================================================
